---- MODULE Spec2Model ----
(***************************************************************************)
(* Model of merge_i18n.py: main() loads a target and a source document,    *)
(* merge_i18n_translations copies translations of a closed set of language *)
(* codes from matched source paragraphs into target paragraphs that        *)
(* already have an i18n mapping, the result is saved and statistics are    *)
(* printed.                                                                *)
(*                                                                         *)
(* A JSON object is a TLA+ function from its keys (strings) to its values; *)
(* a key that is absent from the object is absent from the DOMAIN.  A JSON *)
(* array is a sequence.  Identifiers n are integers; 0 is the falsy one.   *)
(***************************************************************************)
EXTENDS Integers, Sequences, FiniteSets

VARIABLES
    argc,          \* len(sys.argv)
    target_file,   \* what is on disk at sys.argv[1]
    source_file,   \* what is on disk at sys.argv[2]
    output_file,   \* what is on disk at sys.argv[3]
    pc,            \* position of main()
    target_data,   \* main's target_data (merged_data is the same object)
    source_data,   \* main's source_data
    stdout,        \* the messages printed so far
    stats,         \* the statistics printed at the end of main
    exit_code      \* the status the process ended with, Running before

vars == <<argc, target_file, source_file, output_file, pc, target_data,
          source_data, stdout, stats, exit_code>>

-----------------------------------------------------------------------------
(* Bounds of the inputs *)

MaxId == 1
MaxChapters == 2
MaxParagraphs == 2

Ids == 0..MaxId

\* language codes and texts that occur in the input documents
InputLangs == {"en", "de", "it"}
Texts == {"", "Hello", "Hallo"}

-----------------------------------------------------------------------------
(* Python's dict and truthiness *)

\* d.get(key, default)
Get(d, key, default) == IF key \in DOMAIN d THEN d[key] ELSE default

\* d[key] = value
Put(d, key, value) ==
    [k \in DOMAIN d \cup {key} |-> IF k = key THEN value ELSE d[k]]

EmptyDict == [k \in {} |-> k]

\* `if chapter_n:` / `if para_n:` for an identifier that is present: 0 is
\* falsy (as is "", the falsy identifier among the strings)
truthy_n(n) == n # 0

\* `source_i18n[lang]` as a condition: a non-empty string
truthy_text(s) == s # ""

-----------------------------------------------------------------------------
(* merge_i18n_translations *)

\* the list when every language of the input documents is copied
MergeLangsOpen == <<"en", "de", "es", "ru", "ja", "zh", "it">>

\* the languages the merge copies: "en", then the list of the for loop
MergeLangs == <<"en", "de", "es", "ru", "ja", "zh">>

\* the assignment guarded by `lang in source_i18n` alone
merge_lang_any_value(target_i18n, source_i18n, lang) ==
    IF lang \in DOMAIN source_i18n
    THEN Put(target_i18n, lang, source_i18n[lang])
    ELSE target_i18n

\* the assignment written `+=`: the source text is appended to the target's
merge_lang_append(target_i18n, source_i18n, lang) ==
    IF lang \in DOMAIN source_i18n /\ truthy_text(source_i18n[lang])
    THEN Put(target_i18n, lang, Get(target_i18n, lang, "") \o source_i18n[lang])
    ELSE target_i18n

\* one guarded assignment `target_para['i18n'][lang] = source_i18n[lang]`
merge_lang(target_i18n, source_i18n, lang) ==
    IF lang \in DOMAIN source_i18n /\ truthy_text(source_i18n[lang])
    THEN Put(target_i18n, lang, source_i18n[lang])
    ELSE target_i18n

RECURSIVE merge_langs(_, _, _)
\* the assignments for the first k languages of MergeLangs, in order
merge_langs(target_i18n, source_i18n, k) ==
    IF k = 0 THEN target_i18n
    ELSE merge_lang(merge_langs(target_i18n, source_i18n, k - 1),
                    source_i18n, MergeLangs[k])

\* the body with `target_para.setdefault('i18n', {})` in place of the test
merge_paragraph_setdefault(target_para, source_para) ==
    LET source_i18n == Get(source_para, "i18n", EmptyDict)
    IN  Put(target_para, "i18n",
            merge_langs(Get(target_para, "i18n", EmptyDict), source_i18n,
                        Len(MergeLangs)))

\* the body of `if para_n in source_paragraphs:`
merge_paragraph(target_para, source_para) ==
    LET source_i18n == Get(source_para, "i18n", EmptyDict)
    IN  IF "i18n" \in DOMAIN target_para
        THEN [target_para EXCEPT
                !.i18n = merge_langs(@, source_i18n, Len(MergeLangs))]
        ELSE target_para

\* the step written `index.setdefault(n, record)`: the first record stays
index_put_first(index, record) ==
    IF "n" \in DOMAIN record /\ truthy_n(record.n) /\ record.n \notin DOMAIN index
    THEN Put(index, record.n, record)
    ELSE index

\* one step of an index loop: `if n: index[n] = record`
index_put(index, record) ==
    IF "n" \in DOMAIN record /\ truthy_n(record.n)
    THEN Put(index, record.n, record)
    ELSE index

RECURSIVE index_by_n(_, _)
\* the lookup dictionary after the loop has scanned the first k records
index_by_n(records, k) ==
    IF k = 0 THEN EmptyDict
    ELSE index_put(index_by_n(records, k - 1), records[k])

\* source_chapters, as built from source_data.get('chapters', [])
source_chapters_of(source) ==
    LET chapters == Get(source, "chapters", <<>>)
    IN  index_by_n(chapters, Len(chapters))

\* source_paragraphs, as built from source_chapter.get('paragraphs', [])
source_paragraphs_of(source_chapter) ==
    LET paragraphs == Get(source_chapter, "paragraphs", <<>>)
    IN  index_by_n(paragraphs, Len(paragraphs))

\* `key in index` where key is record.get('n'); None is never a key
n_in(record, index) == "n" \in DOMAIN record /\ record.n \in DOMAIN index

\* the iteration with `source_paragraphs.get(para_n, {})` and an unguarded
\* `target_para['i18n']['en'] = source_i18n.get('en', '')` for a miss
merge_target_para_default(target_para, source_paragraphs) ==
    IF n_in(target_para, source_paragraphs)
    THEN merge_paragraph(target_para, source_paragraphs[target_para.n])
    ELSE IF "i18n" \in DOMAIN target_para
         THEN [target_para EXCEPT !.i18n = Put(@, "en", "")]
         ELSE target_para

\* one iteration of `for target_para in target_chapter.get('paragraphs', [])`
merge_target_para(target_para, source_paragraphs) ==
    IF n_in(target_para, source_paragraphs)
    THEN merge_paragraph(target_para, source_paragraphs[target_para.n])
    ELSE target_para

\* the iteration that rebuilds the paragraph list from the matched ones
merge_chapter_matched_only(target_chapter, source_chapters) ==
    IF n_in(target_chapter, source_chapters) /\ "paragraphs" \in DOMAIN target_chapter
    THEN LET source_paragraphs ==
                 source_paragraphs_of(source_chapters[target_chapter.n])
             matched(p) == n_in(p, source_paragraphs)
             kept == SelectSeq(target_chapter.paragraphs, matched)
         IN  [target_chapter EXCEPT
                 !.paragraphs =
                     [i \in 1..Len(kept) |-> merge_target_para(kept[i], source_paragraphs)]]
    ELSE target_chapter

\* one iteration of `for target_chapter in target_data.get('chapters', [])`
merge_chapter(target_chapter, source_chapters) ==
    IF n_in(target_chapter, source_chapters) /\ "paragraphs" \in DOMAIN target_chapter
    THEN LET source_paragraphs ==
                 source_paragraphs_of(source_chapters[target_chapter.n])
         IN  [target_chapter EXCEPT
                 !.paragraphs =
                     [i \in 1..Len(@) |-> merge_target_para(@[i], source_paragraphs)]]
    ELSE target_chapter

\* the target document after the in-place merge
merge_i18n_translations(target, source) ==
    IF "chapters" \in DOMAIN target
    THEN [target EXCEPT
             !.chapters =
                 [i \in 1..Len(@) |-> merge_chapter(@[i], source_chapters_of(source))]]
    ELSE target

-----------------------------------------------------------------------------
(* load_json, save_json and the statistics of main *)

ExpectedArgc == 4

Running == -1
Unset == [unset |-> TRUE]
Missing == [file |-> "missing"]          \* no file at the path
Invalid == [file |-> "invalid_json"]     \* a file that json.load rejects

\* load_json that returns {} where the file is missing
load_json_lenient(file) ==
    IF file = Missing THEN [exit |-> FALSE, msg |-> "", data |-> EmptyDict]
    ELSE IF file = Invalid THEN [exit |-> TRUE, msg |-> "error_invalid_json", data |-> Unset]
    ELSE [exit |-> FALSE, msg |-> "", data |-> file]

\* load_json: the parsed document, or the message printed before sys.exit(1)
load_json(file) ==
    IF file = Missing THEN [exit |-> TRUE, msg |-> "error_not_found", data |-> Unset]
    ELSE IF file = Invalid THEN [exit |-> TRUE, msg |-> "error_invalid_json", data |-> Unset]
    ELSE [exit |-> FALSE, msg |-> "", data |-> file]

RECURSIVE count_paragraphs(_, _)
\* sum(len(ch.get('paragraphs', [])) for ch in chapters[:k])
count_paragraphs(chapters, k) ==
    IF k = 0 THEN 0
    ELSE count_paragraphs(chapters, k - 1)
         + Len(Get(chapters[k], "paragraphs", <<>>))

\* the test written `'en' in para.get('i18n', {})`
has_en_key(para) == "en" \in DOMAIN Get(para, "i18n", EmptyDict)

\* `if para.get('i18n', {}).get('en'):`
has_en(para) ==
    LET i18n == Get(para, "i18n", EmptyDict)
    IN  "en" \in DOMAIN i18n /\ truthy_text(i18n["en"])

RECURSIVE count_filled_paras(_, _)
count_filled_paras(paragraphs, k) ==
    IF k = 0 THEN 0
    ELSE count_filled_paras(paragraphs, k - 1)
         + (IF has_en(paragraphs[k]) THEN 1 ELSE 0)

RECURSIVE count_filled(_, _)
\* filled_en_translations after the first k chapters
count_filled(chapters, k) ==
    IF k = 0 THEN 0
    ELSE count_filled(chapters, k - 1)
         + LET paragraphs == Get(chapters[k], "paragraphs", <<>>)
           IN  count_filled_paras(paragraphs, Len(paragraphs))

\* f"{filled/total*100:.1f}" in tenths of a percent: the float is rounded to
\* the nearest tenth, ties to even.  (The float and the exact quotient round
\* alike for every total below 80; 23/80 is the first pair that differs.)
format_coverage(filled, total) ==
    LET q == (1000 * filled) \div total
        r == (1000 * filled) % total
    IN  IF 2 * r > total THEN q + 1
        ELSE IF 2 * r < total THEN q
        ELSE IF q % 2 = 0 THEN q ELSE q + 1

\* the statistics lines of main
statistics(merged_data) ==
    LET chapters == Get(merged_data, "chapters", <<>>)
        total_chapters == Len(chapters)
        total_paragraphs == count_paragraphs(chapters, Len(chapters))
        filled_en_translations == count_filled(chapters, Len(chapters))
    IN  [total_chapters |-> total_chapters,
         total_paragraphs |-> total_paragraphs,
         filled_en_translations |-> filled_en_translations,
         coverage |-> IF total_paragraphs > 0
                      THEN format_coverage(filled_en_translations, total_paragraphs)
                      ELSE -1,
         last_line |-> IF total_paragraphs > 0
                       THEN "Translation coverage" ELSE "No paragraphs found"]

NoStats == [total_chapters |-> -1, total_paragraphs |-> -1,
            filled_en_translations |-> -1, coverage |-> -1, last_line |-> ""]

-----------------------------------------------------------------------------
(* The input documents *)

BoundedSeqs(A, k) == UNION {[1..m -> A] : m \in 0..k}

Doc(chapters) == [title |-> "book", chapters |-> chapters]
Chapter(n, paragraphs) ==
    [n |-> n, title |-> "ch", i18n |-> [en |-> ""], paragraphs |-> paragraphs]
ChapterNoN(paragraphs) ==
    [title |-> "ch", i18n |-> [en |-> ""], paragraphs |-> paragraphs]
Para(n, i18n) == [n |-> n, text |-> "fr", i18n |-> i18n]
ParaNoN(i18n) == [text |-> "fr", i18n |-> i18n]

\* an identifier, or none (a negative choice): the record with or without n
NChoices == (-1)..MaxId
WithN(record, n) == IF n < 0 THEN record ELSE Put(record, "n", n)

\* every i18n mapping over the input languages and texts
I18nMaps == UNION {[D -> Texts] : D \in SUBSET InputLangs}

\* one chapter with one paragraph whose i18n is any mapping or absent; the
\* target's identifiers are 1; in the source either the chapter's or the
\* paragraph's is any identifier or none, the other one is 1
RichParas == {ParaNoN(m) : m \in I18nMaps} \cup {[text |-> "fr"]}
RichTargets == {Doc(<<Chapter(1, <<WithN(p, 1)>>)>>) : p \in RichParas}
RichSourceNs == ({1} \X NChoices) \cup (NChoices \X {1})
RichSources ==
    {Doc(<<WithN(ChapterNoN(<<WithN(p, ns[2])>>), ns[1])>>) :
        p \in RichParas, ns \in RichSourceNs}
RichPairs == RichTargets \X RichSources

\* one chapter 1 with up to MaxParagraphs paragraphs of any identifier
TargetShapeParas == {Para(n, [en |-> ""]) : n \in Ids} \cup {ParaNoN([en |-> ""])}
SourceShapeParas ==
    {Para(n, [en |-> t]) : n \in Ids, t \in Texts \ {""}}
        \cup {ParaNoN([en |-> "Hello"])}
ParagraphPairs ==
    {Doc(<<Chapter(1, ps)>>) : ps \in BoundedSeqs(TargetShapeParas, MaxParagraphs)}
        \X {Doc(<<Chapter(1, ps)>>) : ps \in BoundedSeqs(SourceShapeParas, MaxParagraphs)}

\* up to MaxChapters chapters of any identifier, each with one paragraph 1
TargetShapeChapters ==
    {Chapter(n, <<Para(1, [en |-> ""])>>) : n \in Ids}
        \cup {ChapterNoN(<<Para(1, [en |-> ""])>>)}
SourceShapeChapters ==
    {Chapter(n, <<Para(1, [en |-> t])>>) : n \in Ids, t \in Texts \ {""}}
        \cup {ChapterNoN(<<Para(1, [en |-> "Hello"])>>)}
ChapterPairs ==
    {Doc(cs) : cs \in BoundedSeqs(TargetShapeChapters, MaxChapters)}
        \X {Doc(cs) : cs \in BoundedSeqs(SourceShapeChapters, MaxChapters)}

\* documents without a chapters field, chapters without a paragraphs field
SparseTargets ==
    {[title |-> "book"],
     Doc(<<[n |-> 1, title |-> "ch"]>>),
     Doc(<<Chapter(1, <<Para(1, [en |-> ""])>>)>>)}
SparseSources ==
    {[title |-> "book"],
     Doc(<<[n |-> 1, title |-> "ch"]>>),
     Doc(<<Chapter(1, <<Para(1, [en |-> "Hello"])>>)>>)}
SparsePairs == SparseTargets \X SparseSources

\* files that are missing or are not JSON
ErrorFiles == {Missing, Invalid, Doc(<<Chapter(1, <<Para(1, [en |-> "Hello"])>>)>>)}
ErrorPairs == ErrorFiles \X ErrorFiles

DocPairs == RichPairs \cup ParagraphPairs \cup ChapterPairs \cup SparsePairs
Inputs ==
    ({ExpectedArgc} \X (DocPairs \cup ErrorPairs))
        \cup ({ExpectedArgc - 1, ExpectedArgc + 1} \X ErrorPairs)

-----------------------------------------------------------------------------
(* main *)

Init ==
    /\ \E in \in Inputs :
          /\ argc = in[1]
          /\ target_file = in[2][1]
          /\ source_file = in[2][2]
    /\ output_file = Missing
    /\ pc = "start"
    /\ target_data = Unset
    /\ source_data = Unset
    /\ stdout = <<>>
    /\ stats = NoStats
    /\ exit_code = Running

\* sys.exit(1) after printing the lines msgs
Exit1(msgs) ==
    /\ stdout' = stdout \o msgs
    /\ exit_code' = 1
    /\ pc' = "exited"

\* `if len(sys.argv) != 4:` print the usage and exit
Usage ==
    /\ pc = "start"
    /\ argc # ExpectedArgc
    /\ Exit1(<<"usage">>)
    /\ UNCHANGED <<argc, target_file, source_file, output_file, target_data,
                   source_data, stats>>

\* target_data = load_json(target_file)
LoadTarget ==
    /\ pc = "start"
    /\ argc = ExpectedArgc
    /\ LET loaded == load_json(target_file)
       IN  IF loaded.exit
           THEN /\ Exit1(<<"loading_target", loaded.msg>>)
                /\ UNCHANGED target_data
           ELSE /\ target_data' = loaded.data
                /\ stdout' = stdout \o <<"loading_target">>
                /\ pc' = "load_source"
                /\ UNCHANGED exit_code
    /\ UNCHANGED <<argc, target_file, source_file, output_file, source_data, stats>>

\* source_data = load_json(source_file)
LoadSource ==
    /\ pc = "load_source"
    /\ LET loaded == load_json(source_file)
       IN  IF loaded.exit
           THEN /\ Exit1(<<"loading_source", loaded.msg>>)
                /\ UNCHANGED source_data
           ELSE /\ source_data' = loaded.data
                /\ stdout' = stdout \o <<"loading_source">>
                /\ pc' = "merge"
                /\ UNCHANGED exit_code
    /\ UNCHANGED <<argc, target_file, source_file, output_file, target_data, stats>>

\* merged_data = merge_i18n_translations(target_data, source_data)
Merge ==
    /\ pc = "merge"
    /\ target_data' = merge_i18n_translations(target_data, source_data)
    /\ stdout' = Append(stdout, "merging")
    /\ pc' = "save"
    /\ UNCHANGED <<argc, target_file, source_file, output_file, source_data,
                   stats, exit_code>>

\* save_json(merged_data, output_file)
Save ==
    /\ pc = "save"
    /\ output_file' = target_data
    /\ stdout' = Append(stdout, "saving")
    /\ pc' = "stats"
    /\ UNCHANGED <<argc, target_file, source_file, target_data, source_data,
                   stats, exit_code>>

\* save_json when open() raises: the exception is not caught, the
\* interpreter prints the traceback and ends with status 1
SaveFails ==
    /\ pc = "save"
    /\ stdout' = Append(stdout, "saving")
    /\ exit_code' = 1
    /\ pc' = "exited"
    /\ UNCHANGED <<argc, target_file, source_file, output_file, target_data,
                   source_data, stats>>

\* the statistics and the end of main
Statistics ==
    /\ pc = "stats"
    /\ stats' = statistics(target_data)
    /\ stdout' = Append(stdout, "completed")
    /\ exit_code' = 0
    /\ pc' = "done"
    /\ UNCHANGED <<argc, target_file, source_file, output_file, target_data,
                   source_data>>

Next ==
    \/ Usage
    \/ LoadTarget
    \/ LoadSource
    \/ Merge
    \/ Save
    \/ SaveFails
    \/ Statistics

Spec == Init /\ [][Next]_vars

-----------------------------------------------------------------------------
(* Vocabulary of the properties.  The target before the merge is the       *)
(* document of target_file, which main never writes; the target after the  *)
(* merge is target_data once pc has passed "merge".                        *)

Merged == pc \in {"save", "stats", "done"}

ChaptersOf(doc) == Get(doc, "chapters", <<>>)
ParagraphsOf(chapter) == Get(chapter, "paragraphs", <<>>)
I18nOf(para) == Get(para, "i18n", EmptyDict)

ClosedLangs == {"en", "de", "es", "ru", "ja", "zh"}

\* the positions <<chapter, paragraph>> of the paragraphs of a document
Positions(doc) ==
    UNION {{<<i, j>> : j \in 1..Len(ParagraphsOf(ChaptersOf(doc)[i]))} :
              i \in 1..Len(ChaptersOf(doc))}
ChapterAt(doc, pos) == ChaptersOf(doc)[pos[1]]
ParaAt(doc, pos) == ParagraphsOf(ChaptersOf(doc)[pos[1]])[pos[2]]

\* as many chapters, and as many paragraphs in each, after as before
SameShape ==
    /\ Len(ChaptersOf(target_data)) = Len(ChaptersOf(target_file))
    /\ \A i \in 1..Len(ChaptersOf(target_file)) :
          Len(ParagraphsOf(ChaptersOf(target_data)[i]))
              = Len(ParagraphsOf(ChaptersOf(target_file)[i]))

NonEmptyAt(i18n, lang) == lang \in DOMAIN i18n /\ i18n[lang] # ""
SameAt(i18n1, i18n2, lang) ==
    /\ lang \in DOMAIN i18n1 <=> lang \in DOMAIN i18n2
    /\ lang \in DOMAIN i18n1 => i18n1[lang] = i18n2[lang]

\* para2 is para with the non-empty translations of source_para copied in
MergedFrom(para, source_para, para2) ==
    /\ "i18n" \in DOMAIN para2
    /\ \A lang \in ClosedLangs :
          IF NonEmptyAt(I18nOf(source_para), lang)
          THEN /\ lang \in DOMAIN para2.i18n
               /\ para2.i18n[lang] = I18nOf(source_para)[lang]
          ELSE SameAt(para.i18n, para2.i18n, lang)

HasN(record, n) == "n" \in DOMAIN record /\ record.n = n
SomeWithN(records, n) == \E k \in 1..Len(records) : HasN(records[k], n)
\* the record with identifier n that comes last in records
LastWithN(records, n) ==
    records[CHOOSE k \in 1..Len(records) :
                /\ HasN(records[k], n)
                /\ \A m \in (k + 1)..Len(records) : ~HasN(records[m], n)]

ExampleTarget == Doc(<<Chapter(1, <<Para(1, [en |-> ""])>>)>>)
ExampleSource == Doc(<<Chapter(1, <<Para(1, [en |-> "Hello", de |-> "Hallo"])>>)>>)
ExampleMerged == Doc(<<Chapter(1, <<Para(1, [en |-> "Hello", de |-> "Hallo"])>>)>>)

-----------------------------------------------------------------------------
\* C1: a target paragraph that has an i18n mapping and for which the lookups
\* find a source paragraph has, for each of en, de, es, ru, ja, zh, the
\* source's value where that is non-empty and its own former value (or
\* absence) otherwise; the example target {en:""} merged with the example
\* source {en:"Hello", de:"Hallo"} becomes {en:"Hello", de:"Hallo"}.
C1_PerLanguageMergeRule ==
    Merged =>
        /\ SameShape
        /\ \A pos \in Positions(target_file) :
              LET tc == ChapterAt(target_file, pos)
                  para == ParaAt(target_file, pos)
                  source_chapters == source_chapters_of(source_data)
                  source_paragraphs == source_paragraphs_of(source_chapters[tc.n])
              IN  (/\ "i18n" \in DOMAIN para
                   /\ n_in(tc, source_chapters)
                   /\ n_in(para, source_paragraphs))
                  => MergedFrom(para, source_paragraphs[para.n],
                                ParaAt(target_data, pos))
        /\ (target_file = ExampleTarget /\ source_data = ExampleSource)
              => target_data = ExampleMerged

C1_Witness ==
    /\ Merged
    /\ target_file = ExampleTarget
    /\ source_data = ExampleSource
    /\ ParaAt(target_data, <<1, 1>>).i18n = [en |-> "Hello", de |-> "Hallo"]

\* C2: a target chapter whose n is not a key of the source chapter index is
\* unchanged, and in a chapter that is found a target paragraph whose n is
\* not a key of the source paragraph index is unchanged.
C2_UnmatchedUnchanged ==
    Merged =>
        /\ SameShape
        /\ \A i \in 1..Len(ChaptersOf(target_file)) :
              ~n_in(ChaptersOf(target_file)[i], source_chapters_of(source_data))
                  => ChaptersOf(target_data)[i] = ChaptersOf(target_file)[i]
        /\ \A pos \in Positions(target_file) :
              LET tc == ChapterAt(target_file, pos)
                  source_chapters == source_chapters_of(source_data)
              IN  (/\ n_in(tc, source_chapters)
                   /\ ~n_in(ParaAt(target_file, pos),
                            source_paragraphs_of(source_chapters[tc.n])))
                  => ParaAt(target_data, pos) = ParaAt(target_file, pos)

\* a chapter that is not found next to a chapter that the merge changed
C2_Witness ==
    /\ Merged
    /\ \E i, k \in 1..Len(ChaptersOf(target_file)) :
          /\ ~n_in(ChaptersOf(target_file)[i], source_chapters_of(source_data))
          /\ Len(ParagraphsOf(ChaptersOf(target_file)[i])) > 0
          /\ ChaptersOf(target_data)[k] # ChaptersOf(target_file)[k]

\* C3: a target paragraph without an i18n field before the merge has none
\* after it and is unchanged, whatever the source holds.
C3_NoFieldCreation ==
    Merged =>
        /\ SameShape
        /\ \A pos \in Positions(target_file) :
              "i18n" \notin DOMAIN ParaAt(target_file, pos)
                  => /\ "i18n" \notin DOMAIN ParaAt(target_data, pos)
                     /\ ParaAt(target_data, pos) = ParaAt(target_file, pos)

\* the paragraph without i18n meets a source paragraph 1 with translations
C3_Witness ==
    /\ Merged
    /\ target_file = Doc(<<Chapter(1, <<[n |-> 1, text |-> "fr"]>>)>>)
    /\ source_data = ExampleSource
    /\ "i18n" \notin DOMAIN ParaAt(target_data, <<1, 1>>)

\* C4: the keys an i18n mapping gains are among en, de, es, ru, ja, zh; a
\* key outside that set is neither added nor has its value changed.
C4_ClosedLanguageSet ==
    Merged =>
        /\ SameShape
        /\ \A pos \in Positions(target_file) :
              LET before == I18nOf(ParaAt(target_file, pos))
                  after == I18nOf(ParaAt(target_data, pos))
              IN  /\ (DOMAIN after \ DOMAIN before) \subseteq ClosedLangs
                  /\ \A lang \in (DOMAIN before \cup DOMAIN after) \ ClosedLangs :
                        /\ lang \in DOMAIN before
                        /\ lang \in DOMAIN after
                        /\ after[lang] = before[lang]

\* the source paragraph that is found holds "it", the target gains "en" only
C4_Witness ==
    /\ Merged
    /\ target_file = ExampleTarget
    /\ source_data = Doc(<<Chapter(1, <<Para(1, [en |-> "Hello", it |-> "Hallo"])>>)>>)
    /\ ParaAt(target_data, <<1, 1>>).i18n = [en |-> "Hello"]

\* C5: for a target chapter that is found in the index, the source chapter
\* used is the last one of source.chapters with that n, and the source
\* paragraph used for a target paragraph is the last one with the paragraph's
\* n in that chapter; what only an earlier duplicate holds is not merged.
C5_LastDuplicateWins ==
    Merged =>
        /\ SameShape
        /\ \A pos \in Positions(target_file) :
              LET tc == ChapterAt(target_file, pos)
                  para == ParaAt(target_file, pos)
                  last_chapter == LastWithN(ChaptersOf(source_data), tc.n)
                  last_para == LastWithN(ParagraphsOf(last_chapter), para.n)
              IN  n_in(tc, source_chapters_of(source_data)) =>
                      IF /\ n_in(para, source_paragraphs_of(last_chapter))
                         /\ "i18n" \in DOMAIN para
                      THEN MergedFrom(para, last_para, ParaAt(target_data, pos))
                      ELSE ParaAt(target_data, pos) = para

\* two source chapters 1; the text of the second one is the one merged
C5_Witness ==
    /\ Merged
    /\ target_file = ExampleTarget
    /\ source_data = Doc(<<Chapter(1, <<Para(1, [en |-> "Hello"])>>),
                           Chapter(1, <<Para(1, [en |-> "Hallo"])>>)>>)
    /\ ParaAt(target_data, <<1, 1>>).i18n = [en |-> "Hallo"]

\* C6: a target chapter is matched to a source chapter exactly when both
\* have an n and the two are equal (0 included), likewise the paragraphs of
\* a matched pair of chapters; a matched paragraph with an i18n mapping
\* receives the translations, every other paragraph is untouched.
C6_MatchByEquality ==
    Merged =>
        /\ SameShape
        /\ \A pos \in Positions(target_file) :
              LET tc == ChapterAt(target_file, pos)
                  para == ParaAt(target_file, pos)
                  chapter_matched ==
                      "n" \in DOMAIN tc /\ SomeWithN(ChaptersOf(source_data), tc.n)
                  last_chapter == LastWithN(ChaptersOf(source_data), tc.n)
                  para_matched ==
                      "n" \in DOMAIN para
                          /\ SomeWithN(ParagraphsOf(last_chapter), para.n)
                  last_para == LastWithN(ParagraphsOf(last_chapter), para.n)
              IN  IF chapter_matched /\ para_matched /\ "i18n" \in DOMAIN para
                  THEN MergedFrom(para, last_para, ParaAt(target_data, pos))
                  ELSE ParaAt(target_data, pos) = para

\* C7: with a wrong argument count, or a target or source file that is
\* missing or not JSON, the run prints its message and ends with status 1
\* without a later step: nothing is merged and no output file is written;
\* a target failure ends the run before the source is read; an output file
\* exists only when both loads succeeded.
BadArgs == argc # ExpectedArgc
BadTarget == target_file \in {Missing, Invalid}
BadSource == source_file \in {Missing, Invalid}
ErrorMessage(file) ==
    IF file = Missing THEN "error_not_found" ELSE "error_invalid_json"
Printed(msg) == \E k \in 1..Len(stdout) : stdout[k] = msg

C7_ErrorsTerminal ==
    /\ BadArgs =>
          /\ pc \in {"start", "exited"}
          /\ pc = "exited" => exit_code = 1 /\ stdout = <<"usage">>
          /\ target_data = Unset /\ source_data = Unset
    /\ (~BadArgs /\ BadTarget) =>
          /\ pc \in {"start", "exited"}
          /\ pc = "exited" =>
                /\ exit_code = 1
                /\ stdout = <<"loading_target", ErrorMessage(target_file)>>
          /\ target_data = Unset /\ source_data = Unset
          /\ ~Printed("loading_source")
    /\ (~BadArgs /\ ~BadTarget /\ BadSource) =>
          /\ pc \in {"start", "load_source", "exited"}
          /\ pc = "exited" =>
                /\ exit_code = 1
                /\ stdout = <<"loading_target", "loading_source",
                              ErrorMessage(source_file)>>
          /\ target_data \in {Unset, target_file}
          /\ source_data = Unset
    /\ (BadArgs \/ BadTarget \/ BadSource) =>
          /\ output_file = Missing
          /\ ~Printed("merging") /\ ~Printed("saving")
          /\ stats = NoStats
          /\ exit_code # 0
    /\ output_file # Missing =>
          /\ ~BadArgs /\ ~BadTarget /\ ~BadSource
          /\ source_data = source_file
          /\ Printed("loading_target") /\ Printed("loading_source")

\* the target was loaded, the source is not JSON: the run ended with 1
C7_Witness ==
    /\ pc = "exited"
    /\ ~BadArgs /\ ~BadTarget
    /\ source_file = Invalid
    /\ target_data = target_file
    /\ exit_code = 1
    /\ output_file = Missing

\* C8: the merged target has the chapters and paragraphs of the target in
\* the same number and order, every field of the root, of a chapter and of
\* a paragraph other than the paragraph's i18n is unchanged, no i18n mapping
\* appears or disappears, and no key leaves an i18n mapping.
C8_StructurePreserved ==
    Merged =>
        /\ DOMAIN target_data = DOMAIN target_file
        /\ \A f \in DOMAIN target_file \ {"chapters"} : target_data[f] = target_file[f]
        /\ SameShape
        /\ \A i \in 1..Len(ChaptersOf(target_file)) :
              LET tc == ChaptersOf(target_file)[i]
                  tc2 == ChaptersOf(target_data)[i]
              IN  /\ DOMAIN tc2 = DOMAIN tc
                  /\ \A f \in DOMAIN tc \ {"paragraphs"} : tc2[f] = tc[f]
        /\ \A pos \in Positions(target_file) :
              LET para == ParaAt(target_file, pos)
                  para2 == ParaAt(target_data, pos)
              IN  /\ DOMAIN para2 = DOMAIN para
                  /\ \A f \in DOMAIN para \ {"i18n"} : para2[f] = para[f]
                  /\ DOMAIN I18nOf(para) \subseteq DOMAIN I18nOf(para2)

\* a target of two chapters that the merge changed
C8_Witness ==
    /\ Merged
    /\ Len(ChaptersOf(target_file)) = 2
    /\ target_data # target_file

\* C9: at the end of a successful run the total is the number of paragraphs
\* of the merged document, the filled count is the number of paragraphs
\* whose i18n.en is non-empty, 0 <= filled <= total, the coverage is
\* filled/total*100 to the nearest tenth (1 of 2 gives 50.0); with no
\* paragraph "No paragraphs found" is printed, nothing is divided, and the
\* run still ends with status 0.
FilledPositions(doc) ==
    {pos \in Positions(doc) : NonEmptyAt(I18nOf(ParaAt(doc, pos)), "en")}
Abs(x) == IF x < 0 THEN -x ELSE x

C9_Statistics ==
    pc = "done" =>
        LET total == Cardinality(Positions(target_data))
            filled == Cardinality(FilledPositions(target_data))
        IN  /\ exit_code = 0
            /\ output_file = target_data
            /\ stats.total_chapters = Len(ChaptersOf(target_data))
            /\ stats.total_paragraphs = total
            /\ stats.filled_en_translations = filled
            /\ 0 <= stats.filled_en_translations
            /\ stats.filled_en_translations <= stats.total_paragraphs
            /\ total > 0 =>
                  /\ stats.last_line = "Translation coverage"
                  /\ 2 * Abs(stats.coverage * total - 1000 * filled) <= total
            /\ (total = 2 /\ filled = 1) => stats.coverage = 500
            /\ total = 0 =>
                  /\ stats.last_line = "No paragraphs found"
                  /\ stats.coverage = -1

\* two paragraphs, one of them filled: 50.0%
C9_Witness ==
    /\ pc = "done"
    /\ stats.total_paragraphs = 2
    /\ stats.filled_en_translations = 1
    /\ stats.coverage = 500
    /\ stats.last_line = "Translation coverage"

\* C10: the merge leaves the source as loaded, and merging the same source
\* into the merged target once more changes nothing.
C10_Idempotent ==
    Merged =>
        /\ source_data = source_file
        /\ merge_i18n_translations(target_data, source_data) = target_data

\* a merge that changed the target and whose second application does not
C10_Witness ==
    /\ Merged
    /\ target_data # target_file
    /\ \E pos \in Positions(target_file) : "de" \in DOMAIN I18nOf(ParaAt(target_file, pos))
    /\ merge_i18n_translations(target_data, source_data) = target_data

====
